---- MODULE Spec2Model ----
(***************************************************************************)
(* Model of the strategy-signal engine, the portfolio simulator and the    *)
(* metrics calculator of src/app.py (BIST backtesting tool).               *)
(*                                                                         *)
(* A run is: choose the inputs (Init), apply one strategy function         *)
(* (ma_crossover_strategy or rsi_strategy), then walk the for-loop of      *)
(* calculate_performance_metrics one bar per step, then compute the        *)
(* metrics record.                                                         *)
(*                                                                         *)
(* Numbers.  The program computes in IEEE doubles.  The model keeps every  *)
(* number as an exact extended rational <<n, d>>:                          *)
(*     d > 0          the rational n/d in lowest terms                     *)
(*     <<0, 0>>       NaN                                                  *)
(*     <<1, 0>>       +inf         <<-1, 0>>   -inf                        *)
(* so division by zero, NaN propagation and NaN comparisons behave as in   *)
(* numpy/pandas; rounding error of doubles is not modelled.                *)
(* Python index k (0-based) is sequence index k+1 here.                    *)
(***************************************************************************)
EXTENDS Integers, Sequences, FiniteSets, TLC

\* ------------------------------------------------------------------ bounds
MaxLen == 5
MaxPrice == 12
MaxPeriod == 2
MaxRsiPeriod == 2

Prices == 10..MaxPrice
Capitals == {100000}
Thresholds == {<<30, 70>>, <<40, 60>>}

\* ------------------------------------------------- extended rational numbers
NaN == <<0, 0>>
PosInf == <<1, 0>>
NegInf == <<-1, 0>>

Abs(x) == IF x < 0 THEN -x ELSE x

Sgn(x) == IF x > 0 THEN 1 ELSE IF x < 0 THEN -1 ELSE 0

RECURSIVE Gcd(_, _)
Gcd(a, b) == IF b = 0 THEN a ELSE Gcd(b, a % b)

\* the number n/d (d may be negative or zero) in canonical form
Norm(n, d) ==
    IF d = 0 THEN <<Sgn(n), 0>>
    ELSE LET g == Gcd(Abs(n), Abs(d))
             s == IF d < 0 THEN -1 ELSE 1
         IN  <<(s * n) \div g, (s * d) \div g>>

FInt(k) == <<k, 1>>

IsNaN(a) == a = NaN

IsFinite(a) == a[2] > 0

FNeg(a) == <<-a[1], a[2]>>

FAdd(a, b) ==
    IF IsNaN(a) \/ IsNaN(b) THEN NaN
    ELSE IF ~IsFinite(a) /\ ~IsFinite(b) THEN (IF a = b THEN a ELSE NaN)
    ELSE IF ~IsFinite(a) THEN a
    ELSE IF ~IsFinite(b) THEN b
    ELSE Norm(a[1] * b[2] + b[1] * a[2], a[2] * b[2])

FSub(a, b) == FAdd(a, FNeg(b))

FMul(a, b) ==
    IF IsNaN(a) \/ IsNaN(b) THEN NaN
    ELSE IF ~IsFinite(a) \/ ~IsFinite(b)
         THEN <<Sgn(a[1]) * Sgn(b[1]), 0>>
    ELSE LET g1 == Gcd(Abs(a[1]), b[2])
             g2 == Gcd(Abs(b[1]), a[2])
         IN  Norm((a[1] \div g1) * (b[1] \div g2),
                  (a[2] \div g2) * (b[2] \div g1))

\* float division: x/0 is +-inf, 0/0 and inf/inf are NaN, x/inf is 0
FDiv(a, b) ==
    IF IsNaN(a) \/ IsNaN(b) THEN NaN
    ELSE IF ~IsFinite(b) THEN (IF IsFinite(a) THEN FInt(0) ELSE NaN)
    ELSE IF b[1] = 0 THEN <<Sgn(a[1]), 0>>
    ELSE IF ~IsFinite(a) THEN <<a[1] * Sgn(b[1]), 0>>
    ELSE FMul(a, Norm(b[2], b[1]))

\* comparisons with a NaN operand are False
FLt(a, b) ==
    IF IsNaN(a) \/ IsNaN(b) THEN FALSE
    ELSE IF ~IsFinite(a) THEN a = NegInf /\ b # NegInf
    ELSE IF ~IsFinite(b) THEN b = PosInf
    ELSE a[1] * b[2] < b[1] * a[2]

FGt(a, b) == FLt(b, a)

\* x != y of floats: True when either side is NaN
FNe(a, b) == IsNaN(a) \/ IsNaN(b) \/ a # b

\* ------------------------------------------------------------ indicators
RECURSIVE SumSeq(_, _, _)
SumSeq(s, lo, hi) == IF lo > hi THEN 0 ELSE s[hi] + SumSeq(s, lo, hi - 1)

\* Series.rolling(window=period).mean() of a series of integers
RollingMean(s, period) ==
    [t \in 1..Len(s) |->
        IF t < period THEN NaN
        ELSE Norm(SumSeq(s, t - period + 1, t), period)]

calculate_ma(close, period) == RollingMean(close, period)

\* delta.where(delta > 0, 0): the NaN of diff() at the first bar becomes 0
GainSeq(close) ==
    [t \in 1..Len(close) |->
        IF t > 1 /\ close[t] - close[t - 1] > 0
        THEN close[t] - close[t - 1] ELSE 0]

\* -delta.where(delta < 0, 0)
LossSeq(close) ==
    [t \in 1..Len(close) |->
        IF t > 1 /\ close[t] - close[t - 1] < 0
        THEN close[t - 1] - close[t] ELSE 0]

calculate_rsi(close, period) ==
    LET gain == RollingMean(GainSeq(close), period)
        loss == RollingMean(LossSeq(close), period)
    IN  [t \in 1..Len(close) |->
            LET rs == FDiv(gain[t], loss[t])
            IN  FSub(FInt(100), FDiv(FInt(100), FAdd(FInt(1), rs)))]

\* Series.diff(): NaN at the first bar
Diff(sig) ==
    [t \in 1..Len(sig) |->
        IF t = 1 THEN NaN ELSE FInt(sig[t] - sig[t - 1])]

\* ------------------------------------------------------------- strategies
\* The chained assignment data['Signal'][short_period:] = ... writes into
\* the frame only when data['Signal'] hands out a view (writeThrough);
\* with copy-on-write it writes into a temporary and Signal stays 0.
MASignal(close, short_period, long_period, writeThrough) ==
    LET ma_short == calculate_ma(close, short_period)
        ma_long == calculate_ma(close, long_period)
    IN  [t \in 1..Len(close) |->
            IF writeThrough /\ t > short_period /\ FGt(ma_short[t], ma_long[t])
            THEN 1 ELSE 0]

RSISignal(rsi, os, ob) ==
    [t \in 1..Len(rsi) |->
        IF FGt(rsi[t], FInt(ob)) THEN -1
        ELSE IF FLt(rsi[t], FInt(os)) THEN 1 ELSE 0]

\* ------------------------------------------------------------------ state
VARIABLES
    params,            \* strategy selector and its parameters, initial_capital
    Close,             \* data['Close']
    RSI,               \* data['RSI'] (empty unless rsi_strategy ran)
    Signal,            \* data['Signal']
    Position,          \* data['Position'] = Signal.diff()
    pc,                \* "strategy", "simulate" or "done"
    portfolio_value,   \* cash balance of the simulator
    position,          \* 0 flat, 1 long
    shares,
    portfolio_values,  \* the equity curve built so far
    held,              \* history: value of position after each processed bar
    metrics            \* the returned record (meaningful when pc = "done")

vars == <<params, Close, RSI, Signal, Position, pc, portfolio_value,
          position, shares, portfolio_values, held, metrics>>

SeriesOfLen(n) == [1..n -> Prices]

AllSeries == UNION {SeriesOfLen(n) : n \in 1..MaxLen}

MAParams ==
    {[strategy |-> "MA", short_period |-> s, long_period |-> l,
      rsi_period |-> 0, oversold |-> 0, overbought |-> 0,
      writeThrough |-> w, initial_capital |-> c] :
        s \in 1..MaxPeriod, l \in 1..MaxPeriod, w \in BOOLEAN, c \in Capitals}

RSIParams ==
    {[strategy |-> "RSI", short_period |-> 0, long_period |-> 0,
      rsi_period |-> p, oversold |-> th[1], overbought |-> th[2],
      writeThrough |-> TRUE, initial_capital |-> c] :
        p \in 1..MaxRsiPeriod, th \in Thresholds, c \in Capitals}

NoMetrics ==
    [total_return |-> FInt(0), sharpe_ratio |-> FInt(0),
     max_drawdown |-> FInt(0), win_rate |-> FInt(0), trades |-> 0]

Init ==
    /\ params \in MAParams \cup RSIParams
    /\ Close \in AllSeries
    /\ RSI = <<>>
    /\ Signal = <<>>
    /\ Position = <<>>
    /\ pc = "strategy"
    /\ portfolio_value = FInt(params.initial_capital)
    /\ position = 0
    /\ shares = FInt(0)
    /\ portfolio_values = <<>>
    /\ held = <<>>
    /\ metrics = NoMetrics

\* ------------------------------------------------------ strategy functions
ma_crossover_strategy ==
    /\ pc = "strategy"
    /\ params.strategy = "MA"
    /\ Signal' = MASignal(Close, params.short_period, params.long_period,
                          params.writeThrough)
    /\ Position' = Diff(Signal')
    /\ pc' = "simulate"
    /\ UNCHANGED <<params, Close, RSI, portfolio_value, position, shares,
                   portfolio_values, held, metrics>>

rsi_strategy ==
    /\ pc = "strategy"
    /\ params.strategy = "RSI"
    /\ RSI' = calculate_rsi(Close, params.rsi_period)
    /\ Signal' = RSISignal(RSI', params.oversold, params.overbought)
    /\ Position' = Diff(Signal')
    /\ pc' = "simulate"
    /\ UNCHANGED <<params, Close, portfolio_value, position, shares,
                   portfolio_values, held, metrics>>

\* ------------------------------------------- calculate_performance_metrics
Bars(n) == [t \in 1..n |-> t]

InBuy(pos, t) == pos[t] = FInt(1)

InSell(pos, t) == pos[t] = FInt(-1)

buy_signals(pos) == SelectSeq(Bars(Len(pos)), LAMBDA t : InBuy(pos, t))

sell_signals(pos) == SelectSeq(Bars(Len(pos)), LAMBDA t : InSell(pos, t))

\* the bar the for-loop processes next
date == Len(portfolio_values) + 1

StepBuy ==
    /\ pc = "simulate"
    /\ date <= Len(Close)
    /\ InBuy(Position, date) /\ position = 0
    /\ shares' = FDiv(portfolio_value, FInt(Close[date]))
    /\ position' = 1
    /\ portfolio_values' =
           Append(portfolio_values, FMul(shares', FInt(Close[date])))
    /\ held' = Append(held, 1)
    /\ UNCHANGED <<params, Close, RSI, Signal, Position, pc,
                   portfolio_value, metrics>>

\* StepSell with the sale priced at the previous bar's close
StepSell_PreviousClose ==
    /\ pc = "simulate"
    /\ date <= Len(Close)
    /\ ~(InBuy(Position, date) /\ position = 0)
    /\ InSell(Position, date) /\ position = 1
    /\ portfolio_value' = FMul(shares, FInt(Close[date - 1]))
    /\ shares' = FInt(0)
    /\ position' = 0
    /\ portfolio_values' = Append(portfolio_values, portfolio_value')
    /\ held' = Append(held, 0)
    /\ UNCHANGED <<params, Close, RSI, Signal, Position, pc, metrics>>

StepSell ==
    /\ pc = "simulate"
    /\ date <= Len(Close)
    /\ ~(InBuy(Position, date) /\ position = 0)
    /\ InSell(Position, date) /\ position = 1
    /\ portfolio_value' = FMul(shares, FInt(Close[date]))
    /\ shares' = FInt(0)
    /\ position' = 0
    /\ portfolio_values' = Append(portfolio_values, portfolio_value')
    /\ held' = Append(held, 0)
    /\ UNCHANGED <<params, Close, RSI, Signal, Position, pc, metrics>>

StepHold ==
    /\ pc = "simulate"
    /\ date <= Len(Close)
    /\ ~(InBuy(Position, date) /\ position = 0)
    /\ ~(InSell(Position, date) /\ position = 1)
    /\ portfolio_values' =
           Append(portfolio_values,
                  IF position = 1 THEN FMul(shares, FInt(Close[date]))
                  ELSE portfolio_value)
    /\ held' = Append(held, position)
    /\ UNCHANGED <<params, Close, RSI, Signal, Position, pc,
                   portfolio_value, position, shares, metrics>>

\* Portfolio_Value.pct_change().dropna()
Returns(pv) ==
    SelectSeq([t \in 1..Len(pv) |->
                  IF t = 1 THEN NaN
                  ELSE FSub(FDiv(pv[t], pv[t - 1]), FInt(1))],
              LAMBDA r : ~IsNaN(r))

RECURSIVE FSum(_, _)
FSum(s, n) == IF n = 0 THEN FInt(0) ELSE FAdd(s[n], FSum(s, n - 1))

\* Series.mean(): NaN for an empty series
Mean(s) == IF Len(s) = 0 THEN NaN ELSE FDiv(FSum(s, Len(s)), FInt(Len(s)))

\* Series.std() (ddof = 1): NaN with fewer than two values, 0 when all values
\* are equal; a positive deviation is kept only as "positive" (1)
Std(s) ==
    IF Len(s) < 2 THEN NaN
    ELSE IF \A i \in 1..Len(s) : s[i] = s[1] THEN FInt(0)
    ELSE FInt(1)

\* (mean / std) * sqrt(252) if std != 0 else 0.  The quotient is irrational
\* in general: the model keeps whether it is defined, and its sign.
Sharpe(returns) ==
    LET std == Std(returns)
        q == FDiv(Mean(returns), std)
    IN  IF FNe(std, FInt(0))
        THEN (IF IsFinite(q) THEN FInt(Sgn(q[1])) ELSE q)
        ELSE FInt(0)

RECURSIVE CumProd(_, _)
CumProd(r, n) ==
    IF n = 0 THEN <<>>
    ELSE LET prev == CumProd(r, n - 1)
         IN  Append(prev,
                    IF n = 1 THEN FAdd(FInt(1), r[1])
                    ELSE FMul(prev[n - 1], FAdd(FInt(1), r[n])))

FMax(a, b) == IF FLt(a, b) THEN b ELSE a

FMin(a, b) == IF FLt(b, a) THEN b ELSE a

RECURSIVE ExpandingMax(_, _)
ExpandingMax(s, n) ==
    IF n = 0 THEN <<>>
    ELSE LET prev == ExpandingMax(s, n - 1)
         IN  Append(prev, IF n = 1 THEN s[1] ELSE FMax(prev[n - 1], s[n]))

RECURSIVE SeriesMin(_, _)
SeriesMin(s, n) ==
    IF n = 0 THEN NaN
    ELSE IF n = 1 THEN s[1]
    ELSE FMin(SeriesMin(s, n - 1), s[n])

MaxDrawdown(returns) ==
    LET cumulative == CumProd(returns, Len(returns))
        running_max == ExpandingMax(cumulative, Len(cumulative))
        drawdown == [t \in 1..Len(cumulative) |->
                        FDiv(FSub(cumulative[t], running_max[t]),
                             running_max[t])]
    IN  FMul(SeriesMin(drawdown, Len(drawdown)), FInt(100))

Min2(a, b) == IF a < b THEN a ELSE b

ProfitableTrades(close, buys, sells) ==
    Cardinality({i \in 1..Min2(Len(buys), Len(sells)) :
                    close[sells[i]] > close[buys[i]]})

WinRate(close, buys, sells) ==
    IF Len(buys) > 0
    THEN FMul(Norm(ProfitableTrades(close, buys, sells), Len(buys)), FInt(100))
    ELSE FInt(0)

TotalReturn(pv, capital) ==
    FMul(FDiv(FSub(pv[Len(pv)], FInt(capital)), FInt(capital)), FInt(100))

ComputeMetrics ==
    /\ pc = "simulate"
    /\ date > Len(Close)
    /\ metrics' =
           LET returns == Returns(portfolio_values)
           IN  [total_return |->
                    TotalReturn(portfolio_values, params.initial_capital),
                sharpe_ratio |-> Sharpe(returns),
                max_drawdown |-> MaxDrawdown(returns),
                win_rate |-> WinRate(Close, buy_signals(Position),
                                     sell_signals(Position)),
                trades |-> Len(buy_signals(Position))]
    /\ pc' = "done"
    /\ UNCHANGED <<params, Close, RSI, Signal, Position, portfolio_value,
                   position, shares, portfolio_values, held>>

Next ==
    \/ ma_crossover_strategy
    \/ rsi_strategy
    \/ StepBuy
    \/ StepSell
    \/ StepHold
    \/ ComputeMetrics

Spec == Init /\ [][Next]_vars

TypeOK ==
    /\ pc \in {"strategy", "simulate", "done"}
    /\ position \in {0, 1}
    /\ Len(portfolio_values) <= Len(Close)
    /\ Len(held) = Len(portfolio_values)

\* ---------------------------------------------------------------- claims
\* bars at which the simulator went Flat -> Long, resp. Long -> Flat
EntryBars(h) ==
    SelectSeq(Bars(Len(h)), LAMBDA t : h[t] = 1 /\ (t = 1 \/ h[t - 1] = 0))

ExitBars(h) ==
    SelectSeq(Bars(Len(h)), LAMBDA t : t > 1 /\ h[t] = 0 /\ h[t - 1] = 1)

Simulating == pc # "strategy" /\ Len(portfolio_values) > 0

LastBar == Len(portfolio_values)

\* C1: at every bar of the equity curve, a Flat Signal means the value is the
\* cash balance (and equal to the value of a preceding Flat bar), a Long
\* Signal means the value is shares * Close; the simulator's position agrees
\* with the Signal column.
C1_EquityAgreesWithSignal ==
    Simulating =>
        /\ Signal[LastBar] = 0 =>
              /\ position = 0
              /\ portfolio_values[LastBar] = portfolio_value
              /\ (LastBar > 1 /\ Signal[LastBar - 1] = 0) =>
                    portfolio_values[LastBar] = portfolio_values[LastBar - 1]
        /\ Signal[LastBar] = 1 =>
              /\ position = 1
              /\ portfolio_values[LastBar] =
                     FMul(shares, FInt(Close[LastBar]))

\* C2: under the RSI strategy the simulator holds no shares on any bar whose
\* RSI is above the overbought threshold.
C2_OverboughtIsFlat ==
    (Simulating /\ params.strategy = "RSI"
        /\ FGt(RSI[LastBar], FInt(params.overbought))) =>
        /\ position = 0
        /\ shares = FInt(0)
        /\ portfolio_values[LastBar] = portfolio_value

Neutral(t) ==
    /\ ~IsNaN(RSI[t])
    /\ ~FLt(RSI[t], FInt(params.oversold))
    /\ ~FGt(RSI[t], FInt(params.overbought))

\* C3: the RSI signal is persistent: a neutral-zone bar keeps the previous
\* bar's Long/Flat state, only an oversold bar turns it Long, only an
\* overbought bar turns it Flat, and a position held before a neutral-zone
\* bar is still held on it.
C3_RsiSignalPersistent ==
    (pc # "strategy" /\ params.strategy = "RSI") =>
        /\ \A t \in 1..Len(Signal) :
              Neutral(t) =>
                  (Signal[t] = 1) = (t > 1 /\ Signal[t - 1] = 1)
        /\ \A t \in 2..Len(Signal) :
              /\ (Signal[t] = 1 /\ Signal[t - 1] # 1) =>
                     FLt(RSI[t], FInt(params.oversold))
              /\ (Signal[t] # 1 /\ Signal[t - 1] = 1) =>
                     FGt(RSI[t], FInt(params.overbought))
        /\ \A t \in 2..Len(held) :
              (Neutral(t) /\ held[t - 1] = 1) => held[t] = 1

RealizedTrades == Len(ExitBars(held))

RealizedWins ==
    Cardinality({i \in 1..RealizedTrades :
                    Close[ExitBars(held)[i]] > Close[EntryBars(held)[i]]})

\* C4: win_rate is 100 * (realized trades with exit price > entry price) /
\* (realized trades); an open trailing position is in neither count; it is 0
\* when there are no trades.
C4_WinRateOverRealizedTrades ==
    pc = "done" =>
        metrics.win_rate =
            IF RealizedTrades = 0 THEN FInt(0)
            ELSE FMul(Norm(RealizedWins, RealizedTrades), FInt(100))

EnterEvents ==
    Cardinality({t \in 2..Len(Signal) : Signal[t - 1] = 0 /\ Signal[t] = 1})

\* C5: trades is the number of bars at which the Signal moves from 0 to 1.
C5_TradesCountsEnters ==
    pc = "done" => metrics.trades = EnterEvents

\* C6: full reinvestment without fees: the cash after every Exit is the cash
\* before the matching Enter times exit close / entry close; with exactly one
\* Enter at p and one Exit at q the final value is initial_capital * q / p
\* and total_return is (q - p) / p * 100.
C6_FullReinvestment ==
    LET entries == EntryBars(held)
        exits == ExitBars(held)
    IN  /\ \A i \in 1..Len(exits) :
              /\ entries[i] > 1
              /\ portfolio_values[exits[i]] =
                     FMul(portfolio_values[entries[i] - 1],
                          Norm(Close[exits[i]], Close[entries[i]]))
              /\ (exits[i] = LastBar) =>
                     portfolio_value = portfolio_values[exits[i]]
        /\ (pc = "done" /\ Len(entries) = 1 /\ Len(exits) = 1) =>
              LET p == Close[entries[1]]
                  q == Close[exits[1]]
              IN  /\ portfolio_values[LastBar] =
                         Norm(params.initial_capital * q, p)
                  /\ metrics.total_return = Norm((q - p) * 100, p)

C6_Witness ==
    /\ pc = "done"
    /\ params.initial_capital = 100000
    /\ Len(EntryBars(held)) = 1
    /\ Len(ExitBars(held)) = 1
    /\ Close[EntryBars(held)[1]] = 10
    /\ Close[ExitBars(held)[1]] = 12
    /\ metrics.total_return = FInt(20)

Defined(x) == IsFinite(x)

\* C7: every field of the metrics record is a defined number; sharpe_ratio is
\* 0 when the standard deviation of the returns is zero or not computable;
\* max_drawdown is defined and <= 0.
C7_MetricsDefined ==
    pc = "done" =>
        /\ Defined(metrics.total_return)
        /\ Defined(metrics.sharpe_ratio)
        /\ Defined(metrics.max_drawdown)
        /\ Defined(metrics.win_rate)
        /\ ~FGt(metrics.max_drawdown, FInt(0))
        /\ (~FGt(Std(Returns(portfolio_values)), FInt(0))) =>
               metrics.sharpe_ratio = FInt(0)

\* C8: calculate_rsi is exactly 100 at every bar whose window of `period`
\* price changes is fully available and contains no loss.
C8_RsiIs100WithoutLosses ==
    (pc # "strategy" /\ params.strategy = "RSI") =>
        \A t \in (params.rsi_period + 1)..Len(Close) :
            SumSeq(LossSeq(Close), t - params.rsi_period + 1, t) = 0 =>
                RSI[t] = FInt(100)

\* C9: the MA crossover Signal is 1 at exactly the bars where both moving
\* averages are defined and MA_Short > MA_Long, and 0 at every other bar.
C9_SignalIsCrossover ==
    (pc # "strategy" /\ params.strategy = "MA") =>
        \A t \in 1..Len(Close) :
            Signal[t] =
                IF /\ t >= params.short_period
                   /\ t >= params.long_period
                   /\ FGt(calculate_ma(Close, params.short_period)[t],
                          calculate_ma(Close, params.long_period)[t])
                THEN 1 ELSE 0

\* C10: every (buy_signals[i], sell_signals[i]) pair is a trade the simulator
\* executed: it entered at the buy bar, held until the sell bar and exited
\* there, the buy is strictly before the sell, and no bar with Position 1 or
\* -1 was ignored by the simulator.
C10_PairsAreExecutedTrades ==
    pc = "done" =>
        LET buys == buy_signals(Position)
            sells == sell_signals(Position)
        IN  /\ \A i \in 1..Min2(Len(buys), Len(sells)) :
                  /\ buys[i] < sells[i]
                  /\ \A t \in buys[i]..(sells[i] - 1) : held[t] = 1
                  /\ held[buys[i] - 1] = 0
                  /\ held[sells[i]] = 0
            /\ \A i \in 1..Len(buys) :
                  held[buys[i]] = 1 /\ held[buys[i] - 1] = 0
            /\ \A i \in 1..Len(sells) :
                  held[sells[i]] = 0 /\ held[sells[i] - 1] = 1

====
